---- MODULE Spec2Model ----
(***************************************************************************)
(* Model of the research-to-report pipeline of AI-Multi-Agent-System:      *)
(*   src/ai_usecase_system.py  AIResearchSystem and its CLI loop  ("full") *)
(*   src/app.py                the Streamlit application          ("fast") *)
(*                                                                         *)
(* Python strings are sequences of one-character strings, so that strip,   *)
(* slicing, join, split, lower and replace are computed, not assumed.      *)
(* A Python dict is a sequence of [key, val] entries in insertion order.   *)
(***************************************************************************)
EXTENDS Naturals, Sequences, FiniteSets, TLC

VARIABLES
    variant,        \* "full" (ai_usecase_system.py) or "fast" (app.py)
    now,            \* wall clock, in seconds
    pc,             \* position of the running handler
    company_name,   \* the company of the current call
    idx,            \* research loop: index of the category being queried
    results,        \* research loop: the dict built so far
    responses,      \* what the provider answered, per category, in the running computation
    inflight,       \* the external call awaiting its answer
    research_cache, \* st.cache_data store of cached_research
    research_data,  \* the record the research call returned
    research_args,  \* the arguments of the computation that produced research_data
    llm,            \* TRUE when the model was initialised, FALSE when self.llm is None
    model_output,   \* the text the inference engine returned
    raw_pre,        \* how model_output was put together: the text before the first marker
    raw_segs,       \*   and the segments that follow each marker
    invoke_state,   \* "none", "ok" or "raised": what llm.invoke did in this cycle
    use_case_cache, \* st.cache_data store of cached_use_cases
    use_cases,      \* the list the parse call returned
    parsed_from,    \* how the text that use_cases was parsed from was put together
    offered,        \* the reports offered for download / assembled in this cycle
    store,          \* the reports directory: filename -> report
    saves           \* the save_report calls made so far, oldest first

vars == <<variant, now, pc, company_name, idx, results, responses, inflight,
          research_cache, research_data, research_args, llm, model_output,
          raw_pre, raw_segs, invoke_state, use_case_cache, use_cases, parsed_from,
          offered,
          store, saves>>

-----------------------------------------------------------------------------
(* Bounds of the model *)

\* seconds the clock may advance one by one after each jump
MaxSeconds == 2
\* jumps of a second less than the TTL the clock may make
MaxJumps == 1
\* markers in a generated text
MaxMarkers == 3
\* save_report calls in one run
MaxSaves == 3

-----------------------------------------------------------------------------
(* Python string and dict primitives *)

Whitespace == {" ", "\n"}

Min(a, b) == IF a <= b THEN a ELSE b

\* s[:n]
Take(s, n) == SubSeq(s, 1, Min(n, Len(s)))

\* s[n:]
Drop(s, n) == SubSeq(s, n + 1, Len(s))

\* s.lstrip()
RECURSIVE LStrip(_)
LStrip(s) == IF s = <<>> \/ Head(s) \notin Whitespace THEN s ELSE LStrip(Tail(s))

\* s.rstrip()
RECURSIVE RStrip(_)
RStrip(s) ==
    IF s = <<>> \/ s[Len(s)] \notin Whitespace THEN s ELSE RStrip(SubSeq(s, 1, Len(s) - 1))

\* s.strip()
Strip(s) == RStrip(LStrip(s))

\* sep.join(parts)
RECURSIVE Join(_, _)
Join(sep, parts) ==
    IF parts = <<>> THEN <<>>
    ELSE IF Len(parts) = 1 THEN parts[1]
    ELSE parts[1] \o sep \o Join(sep, Tail(parts))

\* s.split(sep), sep non-empty: the pieces between the non-overlapping
\* occurrences of sep, scanned from the left
RECURSIVE Split(_, _)
Split(s, sep) ==
    LET hits == {i \in 1..(Len(s) + 1 - Len(sep)) : SubSeq(s, i, i + Len(sep) - 1) = sep}
    IN  IF Len(s) < Len(sep) \/ hits = {} THEN <<s>>
        ELSE LET i == CHOOSE h \in hits : \A g \in hits : h <= g
             IN  <<SubSeq(s, 1, i - 1)>> \o Split(Drop(s, i + Len(sep) - 1), sep)

LowerChar(c) == IF c = "A" THEN "a" ELSE IF c = "B" THEN "b" ELSE IF c = "C" THEN "c" ELSE c

\* s.lower()
Lower(s) == [i \in 1..Len(s) |-> LowerChar(s[i])]

\* s.replace(' ', '_')
ReplaceSpace(s) == [i \in 1..Len(s) |-> IF s[i] = " " THEN "_" ELSE s[i]]

\* n copies of the character c
Rep(c, n) == [i \in 1..n |-> c]

DictKeys(d) == {d[i].key : i \in 1..Len(d)}

DictGet(d, k) == d[CHOOSE i \in 1..Len(d) : d[i].key = k].val

\* d[k] = v
DictSet(d, k, v) ==
    IF k \in DictKeys(d)
    THEN [i \in 1..Len(d) |-> IF d[i].key = k THEN [key |-> k, val |-> v] ELSE d[i]]
    ELSE Append(d, [key |-> k, val |-> v])

-----------------------------------------------------------------------------
(* The search provider's answer to one request.                             *)
(*   post       "response" when requests.post returned, "raises" when it    *)
(*              raised (connection error, timeout)                          *)
(*   status     response.status_code                                       *)
(*   json       "dict" when response.json() is a dict, "nondict" when it is *)
(*              another JSON value, "invalid" when response.json() raises   *)
(*   hasResults whether the dict has the key 'results'                      *)
(*   results    data['results'], a list of items                            *)
(* An item: isDict (it has .get), ctype "str" | "missing" | "none" | "other"*)
(* (the value under 'content': a string, absent, None, a non-string), and   *)
(* content, the string itself.                                              *)

StatusOK == 200

Str(c) == [isDict |-> TRUE, ctype |-> "str", content |-> c]
NoContent == [isDict |-> TRUE, ctype |-> "missing", content |-> <<>>]
NoneContent == [isDict |-> TRUE, ctype |-> "none", content |-> <<>>]
NotADict == [isDict |-> FALSE, ctype |-> "missing", content |-> <<>>]

Ok(items) == [post |-> "response", status |-> StatusOK, json |-> "dict",
              hasResults |-> TRUE, results |-> items]
OkNoResults == [post |-> "response", status |-> StatusOK, json |-> "dict",
                hasResults |-> FALSE, results |-> <<>>]
BadJson(kind) == [post |-> "response", status |-> StatusOK, json |-> kind,
                  hasResults |-> FALSE, results |-> <<>>]
\* an error status; the body may still be a JSON document with results
HttpError == [post |-> "response", status |-> 500, json |-> "dict",
              hasResults |-> TRUE, results |-> <<Str(<<"e">>)>>]
PostRaises == [post |-> "raises", status |-> 0, json |-> "invalid",
               hasResults |-> FALSE, results |-> <<>>]

\* {'summary': '', 'details': []}
EmptyRecord == [summary |-> <<>>, details |-> <<>>]

Categories == <<"company_info", "market_info", "ai_info">>

\* data.get('results', [])
GetResults(r) == IF r.hasResults THEN r.results ELSE <<>>

\* r.get('content', '')
GetContent(item) == IF item.ctype = "missing" THEN <<>> ELSE item.content

\* r.get('content', '').strip() raises: r has no .get, or the content has no .strip
StripRaises(item) == ~item.isDict \/ item.ctype \in {"none", "other"}

\* bool(r.get('content'))
Truthy(item) == (item.ctype = "str" /\ item.content # <<>>) \/ item.ctype = "other"

-----------------------------------------------------------------------------
(* src/ai_usecase_system.py: AIResearchSystem *)

SummaryCap == 500
DetailsCap == 3

\* _extract_summary without the final [:500]
extract_summary_uncapped(items) ==
    LET stripped == [i \in 1..Len(items) |-> Strip(GetContent(items[i]))]
    IN  Join(<<" ">>, SelectSeq(stripped, LAMBDA c : c # <<>>))

\* _extract_summary
extract_summary(items) ==
    LET stripped == [i \in 1..Len(items) |-> Strip(GetContent(items[i]))]
        summaries == SelectSeq(stripped, LAMBDA c : c # <<>>)
    IN  Take(Join(<<" ">>, summaries), SummaryCap)

\* _extract_details
extract_details(items) ==
    LET kept == SelectSeq(items, Truthy)
    IN  Take([i \in 1..Len(kept) |-> GetContent(kept[i])], DetailsCap)

\* the try block of _make_search_request raises
SearchRaises(r) ==
    \/ r.post = "raises"
    \/ /\ r.status = StatusOK
       /\ \/ r.json # "dict"
          \/ \E i \in 1..Len(GetResults(r)) : StripRaises(GetResults(r)[i])

\* _make_search_request without the status_code test
make_search_request_any_status(r) ==
    IF SearchRaises(r) THEN EmptyRecord
    ELSE [summary |-> extract_summary(GetResults(r)),
          details |-> extract_details(GetResults(r))]

\* _make_search_request
make_search_request(r) ==
    IF SearchRaises(r) THEN EmptyRecord
    ELSE IF r.status = StatusOK
         THEN [summary |-> extract_summary(GetResults(r)),
               details |-> extract_details(GetResults(r))]
         ELSE EmptyRecord

-----------------------------------------------------------------------------
(* src/app.py: the body of cached_research for one category *)

ItemCap == 200
SummaryItems == 2
DetailItems == 1
SearchTimeout == 5

\* the summary expression of cached_research
fast_summary(items) ==
    LET top == Take(items, SummaryItems)
    IN  Join(<<" ">>, [i \in 1..Len(top) |-> Take(Strip(GetContent(top[i])), ItemCap)])

\* the details expression of cached_research
fast_details(items) ==
    LET top == Take(items, DetailItems)
    IN  [i \in 1..Len(top) |-> GetContent(top[i])]

\* the try block of cached_research raises
FastRaises(r) ==
    \/ r.post = "raises"
    \/ /\ r.status = StatusOK
       /\ \/ r.json # "dict"
          \/ \E i \in 1..Min(SummaryItems, Len(GetResults(r))) : StripRaises(GetResults(r)[i])

\* the value cached_research records for one category
fast_category(r) ==
    IF FastRaises(r) THEN EmptyRecord
    ELSE IF r.status = StatusOK
         THEN [summary |-> fast_summary(GetResults(r)),
               details |-> fast_details(GetResults(r))]
         ELSE EmptyRecord

CategoryRecord(v, r) == IF v = "full" THEN make_search_request(r) ELSE fast_category(r)

-----------------------------------------------------------------------------
(* st.cache_data(ttl=3600): one store per decorated function.  The key of a *)
(* call is made of the arguments whose parameter name does not begin with  *)
(* an underscore; an entry is served while the clock is before             *)
(* created + ttl, and dropped by the first lookup after that.              *)

TTL == 3600

CachedResearchParams ==
    << <<"_","c","o","m","p","a","n","y","_","n","a","m","e">>,
       <<"_","a","p","i","_","k","e","y">> >>

CachedUseCasesParams ==
    << <<"_","r","e","s","e","a","r","c","h","_","d","a","t","a">>,
       <<"_","m","o","d","e","l","_","o","u","t","p","u","t">> >>

IsHashed(param) == param[1] # "_"

CacheKey(params, args) ==
    LET hashed == {i \in 1..Len(params) : IsHashed(params[i])}
    IN  [i \in hashed |-> args[i]]

\* an entry that never expires
FreshForever(e, t) == TRUE

Fresh(e, t) == t < e.created + TTL

CacheHits(cache, key, t) == {e \in cache : e.key = key /\ Fresh(e, t)}

\* the store after a lookup of key at time t: an expired entry is gone
CacheExpire(cache, key, t) == {e \in cache : e.key # key \/ Fresh(e, t)}

CachePut(cache, key, args, value, t) ==
    {e \in cache : e.key # key}
        \cup {[key |-> key, args |-> args, value |-> value, created |-> t]}

-----------------------------------------------------------------------------
(* State shared by the handlers *)

ApiKey == "TAVILY_API_KEY"

\* the make-up of a generated text: whether it is a string, the text before
\* the first marker, the segments after each marker
NoText == [isStr |-> TRUE, pre |-> <<>>, segs |-> <<>>]

NoCall == [kind |-> "none", category |-> "", hasTimeout |-> FALSE, timeout |-> 0]

researchVars == <<idx, results, responses, inflight>>
generationVars == <<llm, model_output, raw_pre, raw_segs, invoke_state>>
parseVars == <<use_case_cache, use_cases, parsed_from>>
reportVars == <<offered, store, saves>>

InitCommon ==
    /\ now = 0
    /\ pc = "idle"
    /\ company_name = <<>>
    /\ idx = 0
    /\ results = <<>>
    /\ responses = <<>>
    /\ inflight = NoCall
    /\ research_cache = {}
    /\ research_data = <<>>
    /\ research_args = <<>>
    /\ model_output = [isStr |-> TRUE, text |-> <<>>]
    /\ raw_pre = <<>>
    /\ raw_segs = <<>>
    /\ invoke_state = "none"
    /\ use_case_cache = {}
    /\ use_cases = <<>>
    /\ parsed_from = NoText
    /\ offered = <<>>
    /\ store = {}
    /\ saves = <<>>

\* the clock advances by a second
Tick ==
    /\ (now % (TTL - 1)) < MaxSeconds
    /\ now' = now + 1
    /\ UNCHANGED <<variant, pc, company_name, researchVars, research_cache, research_data,
                   research_args, generationVars, parseVars, reportVars>>

\* the clock advances by a second less than the TTL
TickLong ==
    /\ (now \div (TTL - 1)) < MaxJumps
    /\ now' = now + (TTL - 1)
    /\ UNCHANGED <<variant, pc, company_name, researchVars, research_cache, research_data,
                   research_args, generationVars, parseVars, reportVars>>

-----------------------------------------------------------------------------
(* Research: research_company (full) and cached_research (fast) *)

\* research_company is entered: results = {}
CallResearchCompany(c) ==
    /\ variant = "full"
    /\ pc = "idle"
    /\ company_name' = c
    /\ pc' = "research_loop"
    /\ idx' = 1
    /\ results' = <<>>
    /\ responses' = <<>>
    /\ research_data' = <<>>
    /\ research_args' = <<>>
    /\ UNCHANGED <<variant, now, inflight, research_cache, generationVars, parseVars,
                   reportVars>>

\* cached_research(company_name, TAVILY_API_KEY) is called: the st.cache_data
\* wrapper serves a stored value or runs the function
CallCachedResearch(c) ==
    LET key == CacheKey(CachedResearchParams, <<c, ApiKey>>)
        hits == CacheHits(research_cache, key, now)
    IN  /\ variant = "fast"
        /\ pc = "idle"
        /\ company_name' = c
        /\ IF hits # {}
           THEN LET e == CHOOSE h \in hits : TRUE
                IN  /\ research_data' = e.value
                    /\ research_args' = e.args
                    /\ pc' = "researched"
                    /\ responses' = <<>>
                    /\ UNCHANGED <<idx, results, research_cache>>
           ELSE /\ research_cache' = CacheExpire(research_cache, key, now)
                /\ pc' = "research_loop"
                /\ idx' = 1
                /\ results' = <<>>
                /\ responses' = <<>>
                /\ research_data' = <<>>
                /\ research_args' = <<>>
        /\ UNCHANGED <<variant, now, inflight, generationVars, parseVars, reportVars>>

\* requests.post is called for the category at idx; only app.py passes a timeout
IssueSearch ==
    /\ pc = "research_loop"
    /\ idx <= Len(Categories)
    /\ inflight.kind = "none"
    /\ inflight' = [kind |-> "search", category |-> Categories[idx],
                    hasTimeout |-> (variant = "fast"),
                    timeout |-> IF variant = "fast" THEN SearchTimeout ELSE 0]
    /\ UNCHANGED <<variant, now, pc, company_name, idx, results, responses, research_cache,
                   research_data, research_args, generationVars, parseVars, reportVars>>

\* the loop body with the try statement around the whole loop: the first
\* failure ends the loop
RecordCategoryAbort(r) ==
    LET failed == r.post = "raises" \/ r.status # StatusOK \/ r.json # "dict"
    IN  /\ results' = IF failed THEN results
                      ELSE DictSet(results, inflight.category, CategoryRecord(variant, r))
        /\ responses' = DictSet(responses, inflight.category, r)
        /\ idx' = IF failed THEN Len(Categories) + 1 ELSE idx + 1
        /\ inflight' = NoCall
        /\ UNCHANGED <<variant, now, pc, company_name, research_cache, research_data,
                       research_args, generationVars, parseVars, reportVars>>

\* the loop body once requests.post has answered r (or raised)
RecordCategory(r) ==
    /\ results' = DictSet(results, inflight.category, CategoryRecord(variant, r))
    /\ responses' = DictSet(responses, inflight.category, r)
    /\ idx' = idx + 1
    /\ inflight' = NoCall
    /\ UNCHANGED <<variant, now, pc, company_name, research_cache, research_data,
                   research_args, generationVars, parseVars, reportVars>>

\* the provider answers, or the transport fails
SearchResponds(answers) ==
    /\ inflight.kind = "search"
    /\ \E r \in answers : RecordCategory(r)

\* the provider stays silent and the request's timeout expires: requests raises
SearchTimesOut ==
    /\ inflight.kind = "search"
    /\ inflight.hasTimeout
    /\ RecordCategory(PostRaises)

\* return results; the st.cache_data wrapper stores the value
ResearchReturn ==
    /\ pc = "research_loop"
    /\ idx = Len(Categories) + 1
    /\ research_data' = results
    /\ research_args' = <<company_name, ApiKey>>
    /\ research_cache' =
          IF variant = "fast"
          THEN CachePut(research_cache, CacheKey(CachedResearchParams, <<company_name, ApiKey>>),
                        <<company_name, ApiKey>>, results, now)
          ELSE research_cache
    /\ pc' = "researched"
    /\ idx' = 0
    /\ results' = <<>>
    /\ UNCHANGED <<variant, now, company_name, responses, inflight, generationVars,
                   parseVars, reportVars>>

-----------------------------------------------------------------------------
(* SpecResearch: the two research functions called again and again, the     *)
(* provider answering each request in any of the ways of RichAnswers.       *)

ResearchCompanies == { <<"A", "c", "m", "e">>, <<"B">> }

RichAnswers ==
    { Ok(<< Str(Rep("a", 300)), Str(<<" ">> \o Rep("b", 250) \o <<" ">>), Str(<<"c">>),
            Str(<<"d">>) >>),
      Ok(<< Str(<<" ", "a", " ">>), Str(<<>>), Str(<<"b">>) >>),
      Ok(<< NoContent, Str(<<" ">>) >>),
      Ok(<< Str(<<"a">>), Str(<<"b">>), NoneContent >>),
      Ok(<< NotADict >>),
      OkNoResults,
      BadJson("invalid"),
      BadJson("nondict"),
      HttpError,
      PostRaises }

\* the caller is done with the record
ResearchDone ==
    /\ pc = "researched"
    /\ pc' = "idle"
    /\ company_name' = <<>>
    /\ responses' = <<>>
    /\ research_data' = <<>>
    /\ research_args' = <<>>
    /\ UNCHANGED <<variant, now, idx, results, inflight, research_cache, generationVars,
                   parseVars, reportVars>>

\* time passes between two calls
IdleTick == pc = "idle" /\ Tick

IdleTickLong == pc = "idle" /\ TickLong

InitResearch ==
    /\ variant \in {"full", "fast"}
    /\ llm = TRUE
    /\ InitCommon

NextResearch ==
    \/ \E c \in ResearchCompanies : CallResearchCompany(c)
    \/ \E c \in ResearchCompanies : CallCachedResearch(c)
    \/ IssueSearch
    \/ SearchResponds(RichAnswers)
    \/ SearchTimesOut
    \/ ResearchReturn
    \/ ResearchDone
    \/ IdleTick
    \/ IdleTickLong

SpecResearch == InitResearch /\ [][NextResearch]_vars

-----------------------------------------------------------------------------
(* Parsing: _parse_use_cases (full) and cached_use_cases (fast) *)

\* 'Use Case #'
Marker == <<"U", "s", "e", " ", "C", "a", "s", "e", " ", "#">>

\* the records of the non-blank cases, numbered by rank instead of by position
NumberByRank(cases, t) ==
    LET kept == SelectSeq(cases, LAMBDA c : Strip(c) # <<>>)
    IN  [k \in 1..Len(kept) |-> [id |-> k, description |-> Strip(kept[k]), generated_at |-> t]]

\* for i, case in enumerate(cases, 1): if case.strip(): {'id': i, ...}
RECURSIVE Enumerate(_, _, _)
Enumerate(cases, i, t) ==
    IF cases = <<>> THEN <<>>
    ELSE (IF Strip(Head(cases)) # <<>>
          THEN <<[id |-> i, description |-> Strip(Head(cases)), generated_at |-> t]>>
          ELSE <<>>)
         \o Enumerate(Tail(cases), i + 1, t)

\* _parse_use_cases numbering the records 1, 2, 3, ...
parse_use_cases_by_rank(response, t) ==
    IF ~response.isStr THEN <<>>
    ELSE NumberByRank(Tail(Split(response.text, Marker)), t)

\* _parse_use_cases at time t; response.split raises on a value that is no string
parse_use_cases(response, t) ==
    IF ~response.isStr THEN <<>>
    ELSE Enumerate(Tail(Split(response.text, Marker)), 1, t)

\* the body of cached_use_cases at time t
cached_use_cases_body(output, t) ==
    IF ~output.isStr THEN <<>>
    ELSE Enumerate(Tail(Split(output.text, Marker)), 1, t)

\* self._parse_use_cases(response)
CallParseUseCases ==
    /\ variant = "full"
    /\ pc = "generated"
    /\ use_cases' = parse_use_cases(model_output, now)
    /\ parsed_from' = [isStr |-> model_output.isStr, pre |-> raw_pre, segs |-> raw_segs]
    /\ pc' = "parsed"
    /\ UNCHANGED <<variant, now, company_name, researchVars, research_cache, research_data,
                   research_args, generationVars, use_case_cache, reportVars>>

\* cached_use_cases(research_data, model_output): the st.cache_data wrapper
\* serves a stored value, or runs the function and stores what it returns
CallCachedUseCases ==
    LET args == <<research_data, model_output>>
        key == CacheKey(CachedUseCasesParams, args)
        hits == CacheHits(use_case_cache, key, now)
        made == [isStr |-> model_output.isStr, pre |-> raw_pre, segs |-> raw_segs]
    IN  /\ variant = "fast"
        /\ pc = "generated"
        /\ IF hits # {}
           THEN LET e == CHOOSE h \in hits : TRUE
                IN  /\ use_cases' = e.value
                    /\ parsed_from' = e.args[3]
                    /\ UNCHANGED use_case_cache
           ELSE /\ use_cases' = cached_use_cases_body(model_output, now)
                /\ parsed_from' = made
                /\ use_case_cache' =
                      CachePut(use_case_cache, key, args \o <<made>>,
                               cached_use_cases_body(model_output, now), now)
        /\ pc' = "parsed"
        /\ UNCHANGED <<variant, now, company_name, researchVars, research_cache,
                       research_data, research_args, generationVars, reportVars>>

-----------------------------------------------------------------------------
(* SpecParse: the two parse functions called again and again on texts made  *)
(* of an opening text and up to MaxMarkers segments, each after a marker,    *)
(* and on a value that is no string.                                        *)

\* the empty opening, and a preamble that ends with the marker less its '#'
Openings == { <<>>, <<"p", " ", "U", "s", "e", " ", "C", "a", "s", "e", " ">> }

Segments == { <<" ", "\n">>, <<"1", ":", " ", "a", "\n">>, <<" ", "b">> }

SegmentLists == UNION {[1..n -> Segments] : n \in 0..MaxMarkers}

\* the text made of the opening pre and the segments segs
RECURSIVE MakeText(_, _)
MakeText(pre, segs) ==
    IF segs = <<>> THEN pre
    ELSE MakeText(pre \o Marker \o Head(segs), Tail(segs))

\* the engine returns the text made of pre and segs
ReceiveText(pre, segs) ==
    /\ pc = "idle"
    /\ model_output' = [isStr |-> TRUE, text |-> MakeText(pre, segs)]
    /\ raw_pre' = pre
    /\ raw_segs' = segs
    /\ pc' = "generated"
    /\ UNCHANGED <<variant, now, company_name, researchVars, research_cache, research_data,
                   research_args, llm, invoke_state, parseVars, reportVars>>

\* the caller passes a value that is no string (None)
ReceiveNonString ==
    /\ pc = "idle"
    /\ model_output' = [isStr |-> FALSE, text |-> <<>>]
    /\ raw_pre' = <<>>
    /\ raw_segs' = <<>>
    /\ pc' = "generated"
    /\ UNCHANGED <<variant, now, company_name, researchVars, research_cache, research_data,
                   research_args, llm, invoke_state, parseVars, reportVars>>

\* the caller is done with the list
ParseDone ==
    /\ pc = "parsed"
    /\ pc' = "idle"
    /\ model_output' = [isStr |-> TRUE, text |-> <<>>]
    /\ raw_pre' = <<>>
    /\ raw_segs' = <<>>
    /\ use_cases' = <<>>
    /\ parsed_from' = NoText
    /\ UNCHANGED <<variant, now, company_name, researchVars, research_cache, research_data,
                   research_args, llm, invoke_state, use_case_cache, reportVars>>

InitParse ==
    /\ variant \in {"full", "fast"}
    /\ llm = TRUE
    /\ InitCommon

NextParse ==
    \/ \E pre \in Openings, segs \in SegmentLists : ReceiveText(pre, segs)
    \/ ReceiveNonString
    \/ CallParseUseCases
    \/ CallCachedUseCases
    \/ ParseDone
    \/ IdleTickLong

SpecParse == InitParse /\ [][NextParse]_vars

-----------------------------------------------------------------------------
(* Spec: the Streamlit application, src/app.py main().  Every click on      *)
(* Generate runs the script once: cached_research, llm.invoke,              *)
(* cached_use_cases, the download button.                                   *)

PromptCap == 100

FastAnswers == { Ok(<< Str(<<"x">>) >>), HttpError }

FastSegmentLists ==
    { <<>>, << <<" ", "b">> >>, << <<" ", "\n">>, <<"1", ":", " ", "a", "\n">> >> }

\* datetime.now().strftime('%Y-%m-%d'): the day the second t falls in
DateOf(t) == t \div 86400

\* Generate is clicked with an empty company name: st.warning
ClickGenerateEmpty ==
    /\ variant = "fast"
    /\ pc = "idle"
    /\ company_name' = <<>>
    /\ offered' = <<>>
    /\ UNCHANGED <<variant, now, pc, researchVars, research_cache, research_data,
                   research_args, generationVars, parseVars, store, saves>>

\* the prompt is built and llm.invoke(prompt) is called; no timeout is given
InvokeLLM ==
    /\ pc = "researched"
    /\ llm
    /\ inflight.kind = "none"
    /\ inflight' = [kind |-> "invoke",
                    category |-> Take(DictGet(research_data, "company_info").summary,
                                      PromptCap),
                    hasTimeout |-> FALSE, timeout |-> 0]
    /\ UNCHANGED <<variant, now, pc, company_name, idx, results, responses, research_cache,
                   research_data, research_args, generationVars, parseVars, reportVars>>

\* the engine returns the text made of pre and segs
LLMReturns(pre, segs) ==
    /\ inflight.kind = "invoke"
    /\ inflight' = NoCall
    /\ model_output' = [isStr |-> TRUE, text |-> MakeText(pre, segs)]
    /\ raw_pre' = pre
    /\ raw_segs' = segs
    /\ invoke_state' = "ok"
    /\ pc' = "generated"
    /\ UNCHANGED <<variant, now, company_name, idx, results, responses, research_cache,
                   research_data, research_args, llm, parseVars, reportVars>>

\* llm.invoke raises; main() does not catch it and the script run ends
LLMRaisesUncaught ==
    /\ variant = "fast"
    /\ inflight.kind = "invoke"
    /\ inflight' = NoCall
    /\ invoke_state' = "raised"
    /\ pc' = "done"
    /\ UNCHANGED <<variant, now, company_name, idx, results, responses, research_cache,
                   research_data, research_args, llm, model_output, raw_pre, raw_segs,
                   parseVars, reportVars>>

\* if st.session_state.generator.llm: is false, the run ends after the research
\* columns, with no report
SkipWithoutModel ==
    /\ variant = "fast"
    /\ pc = "researched"
    /\ ~llm
    /\ pc' = "done"
    /\ UNCHANGED <<variant, now, company_name, researchVars, research_cache, research_data,
                   research_args, generationVars, parseVars, reportVars>>

\* the report is assembled and offered by st.download_button
OfferReport ==
    /\ variant = "fast"
    /\ pc = "parsed"
    /\ offered' = << [file |-> Lower(company_name)
                               \o <<"_", "a", "i", "_", "r", "e", "p", "o", "r", "t",
                                    ".", "j", "s", "o", "n">>,
                      report |-> [company |-> company_name, date |-> DateOf(now),
                                  research |-> research_data, use_cases |-> use_cases]] >>
    /\ pc' = "done"
    /\ UNCHANGED <<variant, now, company_name, researchVars, research_cache, research_data,
                   research_args, generationVars, parseVars, store, saves>>

\* the script run is over; the page stays until the next click
RunEnds ==
    /\ variant = "fast"
    /\ pc = "done"
    /\ pc' = "idle"
    /\ company_name' = <<>>
    /\ responses' = <<>>
    /\ research_data' = <<>>
    /\ research_args' = <<>>
    /\ model_output' = [isStr |-> TRUE, text |-> <<>>]
    /\ raw_pre' = <<>>
    /\ raw_segs' = <<>>
    /\ invoke_state' = "none"
    /\ use_cases' = <<>>
    /\ parsed_from' = NoText
    /\ offered' = <<>>
    /\ UNCHANGED <<variant, now, idx, results, inflight, research_cache, llm, use_case_cache,
                   store, saves>>

Init ==
    /\ variant = "fast"
    /\ llm \in BOOLEAN
    /\ InitCommon

Next ==
    \/ ClickGenerateEmpty
    \/ \E c \in ResearchCompanies : CallCachedResearch(c)
    \/ IssueSearch
    \/ SearchResponds(FastAnswers)
    \/ SearchTimesOut
    \/ ResearchReturn
    \/ InvokeLLM
    \/ \E segs \in FastSegmentLists : LLMReturns(<<"p", " ">>, segs)
    \/ LLMRaisesUncaught
    \/ SkipWithoutModel
    \/ CallCachedUseCases
    \/ OfferReport
    \/ RunEnds
    \/ IdleTick
    \/ IdleTickLong

Spec == Init /\ [][Next]_vars

-----------------------------------------------------------------------------
(* save_report, src/ai_usecase_system.py.  The clock starts at 00:00:00 of  *)
(* the day EpochDate and every reachable time lies within that month.       *)

EpochDate == 20240101

DigitChars == <<"0", "1", "2", "3", "4", "5", "6", "7", "8", "9">>

\* the last width decimal digits of n
RECURSIVE Digits(_, _)
Digits(n, width) ==
    IF width = 0 THEN <<>>
    ELSE Digits(n \div 10, width - 1) \o <<DigitChars[(n % 10) + 1]>>

\* datetime.now().strftime('%Y%m%d_%H%M%S') at second t
FormatStamp(t) ==
    Digits(EpochDate + (t \div 86400), 8) \o <<"_">>
        \o Digits((t % 86400) \div 3600, 2)
        \o Digits((t % 3600) \div 60, 2)
        \o Digits(t % 60, 2)

\* '_ai_recommendations.json'
ReportSuffix ==
    <<"_", "a", "i", "_", "r", "e", "c", "o", "m", "m", "e", "n", "d", "a", "t", "i", "o",
      "n", "s", ".", "j", "s", "o", "n">>

\* the filename without its timestamp
ReportFilenameUnstamped(company, t) ==
    ReplaceSpace(Lower(company)) \o ReportSuffix

\* f"{company_name.lower().replace(' ', '_')}_{timestamp}_ai_recommendations.json"
ReportFilename(company, t) ==
    ReplaceSpace(Lower(company)) \o <<"_">> \o FormatStamp(t) \o ReportSuffix

\* save_report(company, data, cases): open(filepath, 'w') replaces what the
\* file held
SaveReport(company, data, cases) ==
    LET path == ReportFilename(company, now)
        report == [company_name |-> company, analysis_date |-> DateOf(now),
                   research_data |-> data, ai_use_cases |-> cases]
    IN  /\ variant = "full"
        /\ pc = "idle"
        /\ Len(saves) < MaxSaves
        /\ store' = {f \in store : f.path # path} \cup {[path |-> path, report |-> report]}
        /\ saves' = Append(saves, [company |-> company, at |-> now, path |-> path,
                                    report |-> report])
        /\ UNCHANGED <<variant, now, pc, company_name, researchVars, research_cache,
                       research_data, research_args, generationVars, parseVars, offered>>

-----------------------------------------------------------------------------
(* SpecSave: save_report called again and again as the clock advances *)

SaveCompanies == { <<"A", " ", "b">>, <<"a", "_", "b">>, <<"c">> }

SaveData ==
    { [i \in 1..Len(Categories) |-> [key |-> Categories[i], val |-> EmptyRecord]] }

SaveCases ==
    { <<>>, << [id |-> 1, description |-> <<"b">>, generated_at |-> 0] >> }

InitSave ==
    /\ variant = "full"
    /\ llm = TRUE
    /\ InitCommon

NextSave ==
    \/ \E c \in SaveCompanies, d \in SaveData, u \in SaveCases : SaveReport(c, d, u)
    \/ Tick

SpecSave == InitSave /\ [][NextSave]_vars

-----------------------------------------------------------------------------
(* Properties of research, checked under SpecResearch *)

CategorySet == {Categories[i] : i \in 1..Len(Categories)}

\* the request failed: transport exception, non-200 status, or a body that is
\* not a JSON object
Failed(r) == r.post = "raises" \/ r.status # StatusOK \/ r.json # "dict"

\* the research call returned after running its three queries
Computed == pc = "researched" /\ DictKeys(responses) = CategorySet

\* C1: whatever the provider did for each query, the record research returns
\* has exactly the keys company_info, market_info, ai_info, and a category
\* whose query failed holds {summary: "", details: []}.
C1_ThreeCategories ==
    pc = "researched" =>
        /\ Len(research_data) = Len(Categories)
        /\ DictKeys(research_data) = CategorySet
        /\ \A c \in DictKeys(responses) :
               Failed(DictGet(responses, c)) => DictGet(research_data, c) = EmptyRecord

\* C1 witness: a returned record whose three queries failed in three different
\* ways (exception, error status, invalid body)
C1_Witness ==
    /\ Computed
    /\ DictGet(responses, "company_info") = PostRaises
    /\ DictGet(responses, "market_info") = HttpError
    /\ DictGet(responses, "ai_info") = BadJson("invalid")

\* the longest summary cached_research can build: SummaryItems items of
\* ItemCap characters, joined by single spaces
FastSummaryBound == SummaryItems * ItemCap + (SummaryItems - 1)

\* C3 as stated: summaries are at most 500 (full) / 200 (fast) characters and
\* details at most 3 (full) / 1 (fast) items.
C3_AsStated ==
    pc = "researched" =>
        \A i \in 1..Len(research_data) :
            /\ Len(research_data[i].val.summary)
                   <= (IF variant = "full" THEN SummaryCap ELSE ItemCap)
            /\ Len(research_data[i].val.details)
                   <= (IF variant = "full" THEN DetailsCap ELSE DetailItems)

\* C3 amended: summaries are at most 500 characters in the full variant and
\* at most 2 * 200 + 1 = 401 characters in the fast variant (each of two items
\* is cut to 200 characters before the join); details are at most 3 (full) /
\* 1 (fast) items.
C3_Caps ==
    pc = "researched" =>
        \A i \in 1..Len(research_data) :
            /\ Len(research_data[i].val.summary)
                   <= (IF variant = "full" THEN SummaryCap ELSE FastSummaryBound)
            /\ Len(research_data[i].val.details)
                   <= (IF variant = "full" THEN DetailsCap ELSE DetailItems)

\* C3 witness: the full variant returned a summary of exactly 500 characters
\* with 3 details, cut from a longer answer of 4 items
C3_Witness ==
    /\ Computed
    /\ variant = "full"
    /\ Len(DictGet(responses, "company_info").results) > DetailsCap
    /\ Len(DictGet(research_data, "company_info").summary) = SummaryCap
    /\ Len(DictGet(research_data, "company_info").details) = DetailsCap

\* C7: in one research computation all three queries are issued whatever the
\* earlier ones did, and the value of a category is determined by the answer
\* to its own query alone: it is the record of that answer, and two
\* categories that got the same answer hold the same value.
C7_Independent ==
    (pc = "researched" /\ responses # <<>>) =>
        /\ DictKeys(responses) = CategorySet
        /\ DictKeys(research_data) = CategorySet
        /\ \A c \in CategorySet :
               DictGet(research_data, c) = CategoryRecord(variant, DictGet(responses, c))
        /\ \A c, d \in CategorySet :
               DictGet(responses, c) = DictGet(responses, d)
                   => DictGet(research_data, c) = DictGet(research_data, d)

\* C7 witness: the first query failed and the two later ones were answered and
\* recorded with non-empty summaries
C7_Witness ==
    /\ Computed
    /\ Failed(DictGet(responses, "company_info"))
    /\ DictGet(research_data, "company_info") = EmptyRecord
    /\ DictGet(research_data, "market_info").summary # <<>>
    /\ DictGet(research_data, "ai_info").summary # <<>>

\* C9 as stated, for the search requests: every request awaiting its answer
\* has a timeout.
C9_EverySearchHasTimeout == inflight.kind = "search" => inflight.hasTimeout

-----------------------------------------------------------------------------
(* Properties of parse, checked under SpecParse *)

\* the positions of the segments that are not blank
Surviving(segs) == {i \in 1..Len(segs) : Strip(segs[i]) # <<>>}

\* the k-th smallest element of the set of numbers S
Kth(S, k) == CHOOSE i \in S : Cardinality({j \in S : j <= i}) = k

\* C2 as stated: n surviving segments give n records with ids 1..n, record k
\* describing the k-th surviving segment of the text that was passed.
C2_AsStated ==
    (pc = "parsed" /\ model_output.isStr) =>
        /\ Len(use_cases) = Cardinality(Surviving(raw_segs))
        /\ \A k \in 1..Len(use_cases) :
               /\ use_cases[k].id = k
               /\ use_cases[k].description = Strip(raw_segs[Kth(Surviving(raw_segs), k)])

\* C2 amended: the list parse returns was computed from a text with n
\* surviving segments; it has n records, in split order, record k describing
\* the k-th surviving segment of that text, and its id is the position of that
\* segment among all the segments after the first marker, blank ones counted:
\* the ids are 1..n only when no blank segment precedes a surviving one.
C2_IdsArePositions ==
    (pc = "parsed" /\ parsed_from.isStr) =>
        LET segs == parsed_from.segs
        IN  /\ Len(use_cases) = Cardinality(Surviving(segs))
            /\ \A k \in 1..Len(use_cases) :
                   /\ use_cases[k].id = Kth(Surviving(segs), k)
                   /\ use_cases[k].description = Strip(segs[use_cases[k].id])

\* C2 witness: the text passed has a blank segment followed by two surviving
\* ones, and the records returned are numbered 2 and 3
C2_Witness ==
    /\ pc = "parsed"
    /\ Len(raw_segs) = 3
    /\ Surviving(raw_segs) = {2, 3}
    /\ parsed_from.segs = raw_segs
    /\ Len(use_cases) = 2
    /\ use_cases[1].id = 2
    /\ use_cases[2].id = 3

\* C8 as stated: a value with no marker in it (a text without marker, the empty
\* string, a value that is no string) parses to the empty list.
C8_NoMarkerGivesEmpty ==
    (pc = "parsed" /\ (raw_segs = <<>> \/ ~model_output.isStr)) => use_cases = <<>>

-----------------------------------------------------------------------------
(* Properties of the Streamlit application, checked under Spec *)

\* a list of use cases without its timestamps
Undated(cases) ==
    [k \in 1..Len(cases) |-> [id |-> cases[k].id, description |-> cases[k].description]]

\* C4 as stated: the record cached_research returns for a company was computed
\* from that company's own queries, and the list cached_use_cases returns is
\* the parse of the model output it was called with.
C4_ScopedByArguments ==
    /\ (pc \in {"researched", "generated", "parsed", "done"} /\ research_args # <<>>)
           => research_args[1] = company_name
    /\ pc = "parsed"
           => Undated(use_cases) = Undated(cached_use_cases_body(model_output, now))

\* C5 as stated: when llm is None or llm.invoke raises, the cycle still ends
\* with a report for the company whose use cases are the empty list.
C5_ReportWithoutUseCases ==
    (pc = "done" /\ (~llm \/ invoke_state = "raised")) =>
        /\ Len(offered) = 1
        /\ offered[1].report.company = company_name
        /\ offered[1].report.use_cases = <<>>

\* the key st.cache_data gives the call of cached_research for company c
ResearchKey(c) == CacheKey(CachedResearchParams, <<c, ApiKey>>)

\* the key st.cache_data gives the call cached_use_cases(data, output)
UseCasesKey(data, output) == CacheKey(CachedUseCasesParams, <<data, output>>)

\* C6: a call of a cached function whose key has an entry created less than
\* ttl = 3600 seconds ago does not run the function and returns the stored
\* value; a call made more than ttl seconds after the entry was created runs
\* the function again (and stores a new entry).
C6_TtlStep ==
    /\ (pc = "idle" /\ pc' \in {"researched", "research_loop"}) =>
           \A e \in research_cache :
               e.key = ResearchKey(company_name') =>
                   /\ now - e.created < TTL =>
                          /\ pc' = "researched"
                          /\ research_data' = e.value
                          /\ research_cache' = research_cache
                   /\ now > e.created + TTL =>
                          /\ pc' = "research_loop"
                          /\ e \notin research_cache'
    /\ (pc = "generated" /\ pc' = "parsed") =>
           \A e \in use_case_cache :
               e.key = UseCasesKey(research_data, model_output) =>
                   /\ now - e.created < TTL =>
                          /\ use_cases' = e.value
                          /\ use_case_cache' = use_case_cache
                   /\ now > e.created + TTL =>
                          /\ use_cases' = cached_use_cases_body(model_output, now)
                          /\ e \notin use_case_cache'
                          /\ \E f \in use_case_cache' : f.created = now

\* C6: every step of the app serves a cached result while its entry is
\* younger than the 3600-second lifetime and recomputes once it is older.
C6_CachedWithinTtl == [][C6_TtlStep]_vars

\* C6 witness: in one run, made after the first entries were created,
\* cached_research ran its queries again and stored a new entry, and
\* cached_use_cases, called 3599 seconds after its entry was created, was
\* served the stored list (the entry of cached_research, which is older, had
\* expired)
C6_Witness ==
    /\ pc = "parsed"
    /\ responses # <<>>
    /\ \E r \in research_cache : r.created = now
    /\ \E e \in use_case_cache : now = e.created + (TTL - 1) /\ use_cases = e.value

-----------------------------------------------------------------------------
(* Properties of save_report, checked under SpecSave *)

\* the report the directory holds under path
Stored(path) == (CHOOSE f \in store : f.path = path).report

\* C10: the location is decided by the normalized company name and the second
\* of the save: saves of one company (or of two names with the same
\* normalization) in the same second go to the same location, saves of one
\* company in different seconds go to different locations, and the directory
\* holds, under every location written, the report of the last save to it: the
\* later of two same-second reports, and both of two reports saved in
\* different seconds.
C10_LocationBySecond ==
    /\ \A i, j \in 1..Len(saves) :
           /\ (ReplaceSpace(Lower(saves[i].company)) = ReplaceSpace(Lower(saves[j].company))
                  /\ saves[i].at = saves[j].at)
                  => saves[i].path = saves[j].path
           /\ (saves[i].company = saves[j].company /\ saves[i].at # saves[j].at)
                  => saves[i].path # saves[j].path
    /\ {f.path : f \in store} = {saves[i].path : i \in 1..Len(saves)}
    /\ Cardinality(store) = Cardinality({f.path : f \in store})
    /\ \A i \in 1..Len(saves) :
           (\A j \in (i + 1)..Len(saves) : saves[j].path # saves[i].path)
               => Stored(saves[i].path) = saves[i].report

\* C10 witness: a company saved two different reports in one second and a
\* third a second later; the directory holds the second and the third
C10_Witness ==
    /\ Len(saves) = 3
    /\ saves[1].company = saves[2].company
    /\ saves[2].company = saves[3].company
    /\ saves[1].at = saves[2].at
    /\ saves[3].at = saves[2].at + 1
    /\ saves[1].report # saves[2].report
    /\ Cardinality(store) = 2
    /\ Stored(saves[2].path) = saves[2].report
    /\ Stored(saves[3].path) = saves[3].report

====
